---- MODULE Spec2Model ----
(***************************************************************************)
(* Model of the Arise backend (artemis-arise): the proposal submission     *)
(* boundary (envelope resolution, zod validation, normalization) of        *)
(* src/shared/schema.ts and the decision workflow of src/server/routes.ts. *)
(*                                                                         *)
(* JSON values are tagged records [t, v]; strings are sequences of         *)
(* one-character strings so that concatenation and trim are computed.      *)
(* The storage module (server/storage.ts) is not part of the sources; its  *)
(* four operations are modelled from the repository interface of the       *)
(* specification, each as one awaited step of the calling handler.         *)
(***************************************************************************)
EXTENDS Integers, Sequences, FiniteSets, TLC

VARIABLES
    proposals,   \* storage: sequence of Proposal, proposalId = position
    decisions,   \* storage: sequence of Decision in creation order
    reqs,        \* decide requests: position in the handler, inputs, response
    submitReq,   \* body of the last submit request
    submitRes    \* response of the last submit request

vars == <<proposals, decisions, reqs, submitReq, submitRes>>

(***************************************************************************)
(* Bounds                                                                  *)
(***************************************************************************)
MaxProposals == 2
MaxRequests == 3

(***************************************************************************)
(* JSON values                                                             *)
(***************************************************************************)
Undef == [t |-> "undefined", v |-> 0]
Null == [t |-> "null", v |-> 0]
Str(s) == [t |-> "string", v |-> s]
Num(n) == [t |-> "number", v |-> n]
Bool(b) == [t |-> "boolean", v |-> b]
Arr(a) == [t |-> "array", v |-> a]
Obj(o) == [t |-> "object", v |-> o]

\* JavaScript ToBoolean
Truthy(x) ==
    CASE x.t = "undefined" -> FALSE
      [] x.t = "null" -> FALSE
      [] x.t = "string" -> x.v # <<>>
      [] x.t = "number" -> x.v # 0
      [] x.t = "boolean" -> x.v
      [] OTHER -> TRUE

\* typeof x === "object"
TypeofObject(x) == x.t \in {"object", "array", "null"}

\* a || b
OrElse(a, b) == IF Truthy(a) THEN a ELSE b

\* a ?? b written as a || b
CoalesceAsOr(a, b) == IF Truthy(a) THEN a ELSE b

\* a ?? b
Coalesce(a, b) == IF a.t \in {"undefined", "null"} THEN b ELSE a

(***************************************************************************)
(* Stages and decision types (schema.ts)                                   *)
(***************************************************************************)
ProposalStage ==
    {"DOC_REVIEW", "RISK_REVIEW", "APPROVED", "REJECTED", "CHANGES_REQUESTED"}

DecisionType == {"APPROVE", "REJECT", "REQUEST_CHANGES"}

\* z.string(), z.array(z.string())
IsString(x) == x.t = "string"

IsStringArray(x) ==
    x.t = "array" /\ \A i \in 1..Len(x.v) : IsString(x.v[i])

\* The stage enum with CHANGES_REQUESTED admitted as a claimed stage
DecisionStageEnumWithChangesRequested ==
    {"DOC_REVIEW", "RISK_REVIEW", "CHANGES_REQUESTED"}

\* The stages a decision request may claim
DecisionStageEnum == {"DOC_REVIEW", "RISK_REVIEW"}

\* insertDecisionSchema with the stage enum widened to every stage
insertDecisionSchemaAnyStage(body) ==
    /\ body.stage \in ProposalStage
    /\ body.decision \in DecisionType
    /\ IsStringArray(body.reasons)
    /\ IsString(body.userId)

\* insertDecisionSchema.safeParse(req.body).success
insertDecisionSchema(body) ==
    /\ body.stage \in DecisionStageEnum
    /\ body.decision \in DecisionType
    /\ IsStringArray(body.reasons)
    /\ IsString(body.userId)

(***************************************************************************)
(* Decision handler, pure parts (routes.ts)                                *)
(***************************************************************************)
\* "Cannot make decisions on already completed proposals"
IsCompleted(stage) == stage = "APPROVED" \/ stage = "REJECTED"

\* The stage comparison left out
StageMismatchDropped(proposalStage, decisionStage) == FALSE

\* "Decision stage does not match proposal stage"
StageMismatch(proposalStage, decisionStage) == proposalStage # decisionStage

\* NextStage with an approval at DOC_REVIEW going straight to APPROVED
NextStageApproveSkips(decision, stage) ==
    IF decision = "REJECT" THEN "REJECTED"
    ELSE IF decision = "REQUEST_CHANGES" THEN "CHANGES_REQUESTED"
    ELSE IF decision = "APPROVE" THEN
        IF stage \in {"DOC_REVIEW", "RISK_REVIEW"} THEN "APPROVED"
        ELSE "Invalid approval stage"
    ELSE "Invalid decision type"

\* The new stage of a decision, or the error the handler answers with
NextStage(decision, stage) ==
    IF decision = "REJECT" THEN "REJECTED"
    ELSE IF decision = "REQUEST_CHANGES" THEN "CHANGES_REQUESTED"
    ELSE IF decision = "APPROVE" THEN
        IF stage = "DOC_REVIEW" THEN "RISK_REVIEW"
        ELSE IF stage = "RISK_REVIEW" THEN "APPROVED"
        ELSE "Invalid approval stage"
    ELSE "Invalid decision type"

(***************************************************************************)
(* Storage (modelled from the repository interface)                        *)
(***************************************************************************)
NoProposal == [proposalId |-> 0, stage |-> "", payload |-> Undef]

ProposalExists(proposalId) == proposalId \in 1..Len(proposals)

DecisionsOf(proposalId) ==
    SelectSeq(decisions, LAMBDA d : d.proposalId = proposalId)

\* storage.getProposalDetail: the proposal and its decision history
getProposalDetail(proposalId) ==
    IF ProposalExists(proposalId)
    THEN [proposal |-> proposals[proposalId],
          decisions |-> DecisionsOf(proposalId)]
    ELSE [proposal |-> NoProposal, decisions |-> <<>>]

\* storage.createDecision: the decision list with the new record appended
createDecision(proposalId, decisionData) ==
    Append(decisions,
           [decisionId |-> Len(decisions) + 1,
            proposalId |-> proposalId,
            stage |-> decisionData.stage,
            decision |-> decisionData.decision,
            reasons |-> decisionData.reasons,
            userId |-> decisionData.userId])

\* storage.updateProposalStage
updateProposalStage(proposalId, newStage) ==
    [proposals EXCEPT ![proposalId].stage = newStage]

\* storage.createProposal: a new proposal at DOC_REVIEW
createProposal(payload) ==
    Append(proposals,
           [proposalId |-> Len(proposals) + 1,
            stage |-> "DOC_REVIEW",
            payload |-> payload])

(***************************************************************************)
(* Strings                                                                 *)
(***************************************************************************)
RECURSIVE TrimStart(_)
TrimStart(s) ==
    IF s # <<>> /\ Head(s) = " " THEN TrimStart(Tail(s)) ELSE s

RECURSIVE TrimEnd(_)
TrimEnd(s) ==
    IF s # <<>> /\ s[Len(s)] = " "
    THEN TrimEnd(SubSeq(s, 1, Len(s) - 1))
    ELSE s

\* String.prototype.trim
Trim(s) == TrimEnd(TrimStart(s))

Digits == <<"0", "1", "2", "3", "4", "5", "6", "7", "8", "9">>

\* `${n}` of a non-negative integer
RECURSIVE NumberToString(_)
NumberToString(n) ==
    IF n < 10 THEN <<Digits[n + 1]>>
    ELSE NumberToString(n \div 10) \o <<Digits[(n % 10) + 1]>>

(***************************************************************************)
(* memberSchema and proposalPayloadSchema (schema.ts), as zod evaluates    *)
(* them: every key of an object is parsed and its issues are collected; a  *)
(* refinement of an object runs only when the object itself parsed without *)
(* an issue, and then every refinement of the chain runs.                  *)
(* Of the optional pass-through fields one per object is kept (phone,      *)
(* leaderPhone); idNumber, signature, evidencePhotos, contractText and     *)
(* formData are declared and copied by the source the same way.            *)
(***************************************************************************)
Issue(path, message) == [path |-> path, message |-> message]

\* z.string()
StringIssues(x, path) ==
    IF x.t = "string" THEN {}
    ELSE {Issue(path, IF x.t = "undefined" THEN "Required" ELSE "Expected string")}

\* z.string().optional()
OptionalStringIssues(x, path) ==
    IF x.t \in {"undefined", "string"} THEN {} ELSE {Issue(path, "Expected string")}

\* z.number().optional()
OptionalNumberIssues(x, path) ==
    IF x.t \in {"undefined", "number"} THEN {} ELSE {Issue(path, "Expected number")}

\* z.boolean().optional()
OptionalBooleanIssues(x, path) ==
    IF x.t \in {"undefined", "boolean"} THEN {} ELSE {Issue(path, "Expected boolean")}

NameMessage == "Either 'name' or both 'firstName' and 'lastName' are required"
AmountMessage == "Either 'loanAmount' or 'requestedAmount' is required"

\* First refinement of memberSchema
HasNameForm(data) ==
    Truthy(data.name) \/ (Truthy(data.firstName) /\ Truthy(data.lastName))

\* Second refinement of memberSchema
HasAmountForm(data) ==
    data.loanAmount.t # "undefined" \/ data.requestedAmount.t # "undefined"

\* The z.object of memberSchema, before its refinements
MemberObjectIssues(m, path) ==
    IF m.t # "object" THEN {Issue(path, "Expected object")}
    ELSE OptionalStringIssues(m.v.memberId, Append(path, "memberId"))
         \cup OptionalStringIssues(m.v.name, Append(path, "name"))
         \cup OptionalStringIssues(m.v.firstName, Append(path, "firstName"))
         \cup OptionalStringIssues(m.v.lastName, Append(path, "lastName"))
         \cup OptionalNumberIssues(m.v.loanAmount, Append(path, "loanAmount"))
         \cup OptionalNumberIssues(m.v.requestedAmount, Append(path, "requestedAmount"))
         \cup OptionalStringIssues(m.v.phone, Append(path, "phone"))
         \cup OptionalBooleanIssues(m.v.isLeader, Append(path, "isLeader"))

\* memberSchema without its second refinement
memberSchemaNameOnly(m, path) ==
    LET base == MemberObjectIssues(m, path)
    IN IF base # {} THEN base
       ELSE IF HasNameForm(m.v) THEN {} ELSE {Issue(path, NameMessage)}

\* memberSchema: the issues of one member
memberSchema(m, path) ==
    LET base == MemberObjectIssues(m, path)
    IN IF base # {} THEN base
       ELSE (IF HasNameForm(m.v) THEN {} ELSE {Issue(path, NameMessage)})
            \cup (IF HasAmountForm(m.v) THEN {} ELSE {Issue(path, AmountMessage)})

\* members: z.array(memberSchema).min(1, ...)
MembersIssues(x) ==
    IF x.t # "array"
    THEN {Issue(<<"members">>, IF x.t = "undefined" THEN "Required" ELSE "Expected array")}
    ELSE (IF Len(x.v) < 1
          THEN {Issue(<<"members">>, "At least one member is required")}
          ELSE {})
         \cup UNION {memberSchema(x.v[i], <<"members", i - 1>>) : i \in 1..Len(x.v)}

\* proposalPayloadSchema.safeParse(x).error.issues ({} when it succeeds)
proposalPayloadSchema(x) ==
    IF x.t # "object"
    THEN {Issue(<<>>, IF x.t = "undefined" THEN "Required" ELSE "Expected object")}
    ELSE StringIssues(x.v.groupId, <<"groupId">>)
         \cup OptionalStringIssues(x.v.groupName, <<"groupName">>)
         \cup OptionalStringIssues(x.v.leaderName, <<"leaderName">>)
         \cup OptionalStringIssues(x.v.leaderPhone, <<"leaderPhone">>)
         \cup MembersIssues(x.v.members)
         \cup OptionalNumberIssues(x.v.totalAmount, <<"totalAmount">>)

\* parseResult.data: the keys of the schema, every other key stripped
ParsedData(x) ==
    [groupId |-> x.v.groupId,
     groupName |-> x.v.groupName,
     leaderName |-> x.v.leaderName,
     leaderPhone |-> x.v.leaderPhone,
     members |-> x.v.members,
     totalAmount |-> x.v.totalAmount]

\* error.flatten(): per first path key ("" for the form), each message with
\* the number of issues carrying it
Flatten(issues) ==
    LET KeyOf(i) == IF i.path = <<>> THEN "" ELSE i.path[1]
    IN {[key |-> KeyOf(i), message |-> i.message,
         count |-> Cardinality({j \in issues :
                      KeyOf(j) = KeyOf(i) /\ j.message = i.message})] : i \in issues}

(***************************************************************************)
(* normalizeMember and normalizeProposalPayload (schema.ts)                *)
(***************************************************************************)
EmptyString == Str(<<>>)

normalizeMember(member, index) ==
    LET name == OrElse(member.name,
                       Str(Trim(OrElse(member.firstName, EmptyString).v
                                \o <<" ">>
                                \o OrElse(member.lastName, EmptyString).v)))
        loanAmount == Coalesce(Coalesce(member.loanAmount, member.requestedAmount),
                               Num(0))
    IN [memberId |-> OrElse(member.memberId,
                            Str(<<"M">> \o NumberToString(index + 1))),
        name |-> name,
        firstName |-> member.firstName,
        lastName |-> member.lastName,
        loanAmount |-> loanAmount,
        requestedAmount |-> member.requestedAmount,
        phone |-> member.phone,
        isLeader |-> member.isLeader]

\* A sum that stops after the first member
SumLoanAmountsFirstOnly(members) ==
    IF members = <<>> THEN 0 ELSE members[1].loanAmount.v

\* members.reduce((sum, m) => sum + m.loanAmount, 0)
RECURSIVE SumLoanAmounts(_)
SumLoanAmounts(members) ==
    IF members = <<>> THEN 0
    ELSE members[1].loanAmount.v + SumLoanAmounts(Tail(members))

\* members.find(m => m.isLeader) || members[0], then ?.name
LeaderName(members) ==
    LET flagged == {i \in 1..Len(members) : Truthy(members[i].isLeader)}
    IN IF flagged # {}
       THEN members[CHOOSE i \in flagged : \A j \in flagged : i <= j].name
       ELSE IF members # <<>> THEN members[1].name ELSE Undef

\* normalizeProposalPayload with the "Group " label put before a given
\* group name as well
normalizeProposalPayloadPrefixed(payload) ==
    LET members == [i \in 1..Len(payload.members.v) |->
                       normalizeMember(payload.members.v[i].v, i - 1)]
        totalAmount == Coalesce(payload.totalAmount, Num(SumLoanAmounts(members)))
    IN [groupId |-> payload.groupId,
        groupName |-> Str(<<"G", "r", "o", "u", "p", " ">>
                          \o OrElse(payload.groupName, payload.groupId).v),
        leaderName |-> OrElse(OrElse(payload.leaderName, LeaderName(members)),
                              Str(<<"U", "n", "k", "n", "o", "w", "n">>)),
        leaderPhone |-> payload.leaderPhone,
        members |-> Arr([i \in 1..Len(members) |-> Obj(members[i])]),
        totalAmount |-> totalAmount]

normalizeProposalPayload(payload) ==
    LET members == [i \in 1..Len(payload.members.v) |->
                       normalizeMember(payload.members.v[i].v, i - 1)]
        totalAmount == Coalesce(payload.totalAmount, Num(SumLoanAmounts(members)))
    IN [groupId |-> payload.groupId,
        groupName |-> OrElse(payload.groupName,
                             Str(<<"G", "r", "o", "u", "p", " ">> \o payload.groupId.v)),
        leaderName |-> OrElse(OrElse(payload.leaderName, LeaderName(members)),
                              Str(<<"U", "n", "k", "n", "o", "w", "n">>)),
        leaderPhone |-> payload.leaderPhone,
        members |-> Arr([i \in 1..Len(members) |-> Obj(members[i])]),
        totalAmount |-> totalAmount]

(***************************************************************************)
(* POST /api/proposals/submit (routes.ts)                                  *)
(***************************************************************************)
\* The body taken as the candidate whether or not it is an envelope
NormalizedBodyNeverUnwrapped(rawBody) == rawBody

\* rawBody?.payload && typeof rawBody.payload === "object" ? rawBody.payload : rawBody
NormalizedBody(rawBody) ==
    IF Truthy(rawBody.v.payload) /\ TypeofObject(rawBody.v.payload)
    THEN rawBody.v.payload
    ELSE rawBody

\* rawBody?.proposalId ?? normalizedBody?.proposalId ?? null
IncomingProposalId(rawBody) ==
    LET normalizedBody == NormalizedBody(rawBody)
    IN Coalesce(Coalesce(rawBody.v.proposalId,
                         IF normalizedBody.t = "object"
                         THEN normalizedBody.v.proposalId
                         ELSE Undef),
                Null)

NoSubmitRes ==
    [status |-> 0, error |-> "", details |-> {}, wrapped |-> FALSE,
     incomingProposalId |-> Null, proposalId |-> 0, stage |-> ""]

\* What the handler does with a body, up to the call of storage.createProposal:
\* the 400 response, or the normalized payload to persist
SubmitResult(rawBody) ==
    LET normalizedBody == NormalizedBody(rawBody)
        issues == proposalPayloadSchema(normalizedBody)
    IN IF issues # {}
       THEN [success |-> FALSE,
             normalizedPayload |-> Undef,
             res |-> [NoSubmitRes EXCEPT
                         !.status = 400,
                         !.error = "Invalid proposal payload",
                         !.details = Flatten(issues),
                         !.wrapped = Truthy(rawBody.v.payload),
                         !.incomingProposalId = IncomingProposalId(rawBody)]]
       ELSE [success |-> TRUE,
             normalizedPayload |-> Obj(normalizeProposalPayload(ParsedData(normalizedBody))),
             res |-> NoSubmitRes]

Submit(rawBody) ==
    LET result == SubmitResult(rawBody)
    IN /\ result.success => Len(proposals) < MaxProposals
       /\ proposals' = IF result.success
                       THEN createProposal(result.normalizedPayload)
                       ELSE proposals
       /\ submitReq' = rawBody
       /\ submitRes' = IF result.success
                       THEN [NoSubmitRes EXCEPT
                                !.status = 201,
                                !.proposalId = Len(proposals) + 1,
                                !.stage = "DOC_REVIEW"]
                       ELSE result.res
       /\ UNCHANGED <<decisions, reqs>>

\* storage.createProposal throws: the catch block answers 500
SubmitStorageError(rawBody) ==
    /\ SubmitResult(rawBody).success
    /\ submitReq' = rawBody
    /\ submitRes' = [NoSubmitRes EXCEPT !.status = 500, !.error = "Internal server error"]
    /\ UNCHANGED <<proposals, decisions, reqs>>

(***************************************************************************)
(* POST /api/gate/proposals/:proposalId/decision (routes.ts)               *)
(* The handler awaits storage three times, so requests interleave at the   *)
(* awaits.  A step is one storage call taking effect together with the     *)
(* handler code that follows it up to the next call: the read with the     *)
(* guards, the insert with the choice of the new stage, the update with    *)
(* the response.  The body is parsed before the first call and touches no  *)
(* shared state, so it is part of the first step.                          *)
(***************************************************************************)
NoRes ==
    [status |-> 0, error |-> "", stage |-> "", currentStage |-> "",
     decisionStage |-> "", previousStage |-> "", newStage |-> "",
     decision |-> ""]

NoBody == [stage |-> "", decision |-> "", reasons |-> Undef, userId |-> Undef]

IdleReq ==
    [pc |-> "idle", proposalId |-> 0, decisionData |-> NoBody,
     proposal |-> NoProposal, newStage |-> "", res |-> NoRes]

\* The guards evaluated on the first stored proposal, whichever proposal
\* the request names
DecisionGuardsOnFirst(proposalId, body) ==
    LET proposal == getProposalDetail(1).proposal
    IN IF ~insertDecisionSchema(body)
       THEN [NoRes EXCEPT !.status = 400, !.error = "Invalid decision payload"]
       ELSE IF ~ProposalExists(proposalId)
       THEN [NoRes EXCEPT !.status = 404, !.error = "Proposal not found"]
       ELSE IF IsCompleted(proposal.stage)
       THEN [NoRes EXCEPT
                !.status = 400,
                !.error = "Cannot make decisions on completed proposals",
                !.stage = proposal.stage]
       ELSE IF StageMismatch(proposal.stage, body.stage)
       THEN [NoRes EXCEPT
                !.status = 400,
                !.error = "Decision stage does not match proposal stage",
                !.currentStage = proposal.stage,
                !.decisionStage = body.stage]
       ELSE NoRes

\* Lines 190-224: the response that rejects the request, NoRes when the
\* request passes every guard
DecisionGuards(proposalId, body) ==
    LET proposal == getProposalDetail(proposalId).proposal
    IN IF ~insertDecisionSchema(body)
       THEN [NoRes EXCEPT !.status = 400, !.error = "Invalid decision payload"]
       ELSE IF ~ProposalExists(proposalId)
       THEN [NoRes EXCEPT !.status = 404, !.error = "Proposal not found"]
       ELSE IF IsCompleted(proposal.stage)
       THEN [NoRes EXCEPT
                !.status = 400,
                !.error = "Cannot make decisions on completed proposals",
                !.stage = proposal.stage]
       ELSE IF StageMismatch(proposal.stage, body.stage)
       THEN [NoRes EXCEPT
                !.status = 400,
                !.error = "Decision stage does not match proposal stage",
                !.currentStage = proposal.stage,
                !.decisionStage = body.stage]
       ELSE NoRes

\* The handler returns: the slot keeps the proposal id and the response
Respond(r, res) ==
    reqs' = [reqs EXCEPT ![r] = [IdleReq EXCEPT !.pc = "done",
                                                !.proposalId = reqs[r].proposalId,
                                                !.res = res]]

\* Lines 188-227: parse, storage.getProposalDetail, the guards; a request
\* that passes them calls storage.createDecision
Decide(r, proposalId, body) ==
    LET res == DecisionGuards(proposalId, body)
    IN /\ reqs[r].pc = "idle"
       /\ r > 1 => reqs[r - 1].pc # "idle"
       /\ reqs' = [reqs EXCEPT ![r] =
                      IF res # NoRes
                      THEN [IdleReq EXCEPT !.pc = "done",
                                           !.proposalId = proposalId,
                                           !.res = res]
                      ELSE [IdleReq EXCEPT
                               !.pc = "create",
                               !.proposalId = proposalId,
                               !.decisionData = body,
                               !.proposal = getProposalDetail(proposalId).proposal]]
       /\ UNCHANGED <<proposals, decisions, submitReq, submitRes>>

\* Lines 227-253: the decision is stored; the new stage is chosen; the
\* handler calls storage.updateProposalStage
DecisionCreated(r) ==
    LET decisionData == reqs[r].decisionData
        newStage == NextStage(decisionData.decision, decisionData.stage)
    IN /\ reqs[r].pc = "create"
       /\ decisions' = createDecision(reqs[r].proposalId, decisionData)
       /\ IF newStage \notin ProposalStage
          THEN Respond(r, [NoRes EXCEPT !.status = 400, !.error = newStage])
          ELSE reqs' = [reqs EXCEPT ![r].pc = "update", ![r].newStage = newStage]
       /\ UNCHANGED <<proposals, submitReq, submitRes>>

\* Lines 253-265: the stage is stored; answer 201
StageUpdated(r) ==
    /\ reqs[r].pc = "update"
    /\ proposals' = updateProposalStage(reqs[r].proposalId, reqs[r].newStage)
    /\ Respond(r, [NoRes EXCEPT !.status = 201,
                                !.previousStage = reqs[r].proposal.stage,
                                !.newStage = reqs[r].newStage,
                                !.decision = reqs[r].decisionData.decision])
    /\ UNCHANGED <<decisions, submitReq, submitRes>>

\* Lines 266-269: storage.createDecision or storage.updateProposalStage
\* throws; the catch block answers 500 and nothing is undone
StorageError(r) ==
    /\ reqs[r].pc \in {"create", "update"}
    /\ Respond(r, [NoRes EXCEPT !.status = 500, !.error = "Internal server error"])
    /\ UNCHANGED <<proposals, decisions, submitReq, submitRes>>

(***************************************************************************)
(* Inputs                                                                  *)
(***************************************************************************)
Ana == <<"A", "n", "a">>
Bo == <<"B", "o">>
Lee == <<"L", "e", "e">>

NoMember ==
    [memberId |-> Undef, name |-> Undef, firstName |-> Undef, lastName |-> Undef,
     loanAmount |-> Undef, requestedAmount |-> Undef, phone |-> Undef,
     isLeader |-> Undef]

NoFields ==
    [proposalId |-> Undef, payload |-> Undef, groupId |-> Undef,
     groupName |-> Undef, leaderName |-> Undef, leaderPhone |-> Undef,
     members |-> Undef, totalAmount |-> Undef]

\* {proposalId: p, payload: x}
Envelope(p, x) == Obj([NoFields EXCEPT !.proposalId = p, !.payload = x])

\* {groupId:"G1", members:[{name:"Ana", loanAmount:100}]}
BodyAna ==
    Obj([NoFields EXCEPT
            !.groupId = Str(<<"G", "1">>),
            !.members = Arr(<<Obj([NoMember EXCEPT !.name = Str(Ana),
                                                   !.loanAmount = Num(100)])>>)])

\* {groupId:"G2", members:[{firstName:"Bo", lastName:"Lee", requestedAmount:50}]}
BodyBoLee ==
    Obj([NoFields EXCEPT
            !.groupId = Str(<<"G", "2">>),
            !.members = Arr(<<Obj([NoMember EXCEPT !.firstName = Str(Bo),
                                                   !.lastName = Str(Lee),
                                                   !.requestedAmount = Num(50)])>>)])

\* The bodies submitted while decisions are made
SampleBodies ==
    {Envelope(Str(<<"i", "g", "n", "o", "r", "e", "d">>), BodyBoLee)}

\* Members of submitted payloads: every combination of the name forms
\* (blank ones included), the amount forms, an identifier, a leader flag and
\* a wrongly typed phone
MemberObjects ==
    [memberId : {Undef, Str(<<"X">>)},
     name : {Undef, EmptyString, Str(Ana)},
     firstName : {Undef, Str(Bo), Str(<<" ">>)},
     lastName : {Undef, Str(Lee), Str(<<" ">>)},
     loanAmount : {Undef, Num(0), Num(100)},
     requestedAmount : {Undef, Num(50)},
     phone : {Undef, Num(5)},
     isLeader : {Undef, Bool(TRUE)}]

MemberAna == Obj([NoMember EXCEPT !.name = Str(Ana), !.loanAmount = Num(100)])

MemberBoLee ==
    Obj([NoMember EXCEPT !.firstName = Str(Bo), !.lastName = Str(Lee),
                         !.requestedAmount = Num(50), !.isLeader = Bool(TRUE)])

\* Members paired in two-member lists
PairMembers == {MemberAna, MemberBoLee, Obj(NoMember), Str(Ana)}

\* Values of the members key
MembersValues ==
    {Undef, Str(Ana), Arr(<<>>)}
    \cup {Arr(<<Obj(m)>>) : m \in MemberObjects}
    \cup {Arr(<<m1, m2>>) : m1 \in PairMembers, m2 \in PairMembers}

\* Bodies without proposalId and payload keys
DirectBodies ==
    {Obj([NoFields EXCEPT !.groupId = g, !.leaderName = l,
                          !.totalAmount = t, !.members = m]) :
        g \in {Undef, Str(<<"G", "1">>)},
        l \in {Undef, EmptyString, Str(<<"Z", "e", "d">>)},
        t \in {Undef, Num(0)},
        m \in MembersValues}

\* Bodies wrapped, or carrying keys of an envelope themselves
FewBodies == {BodyAna, BodyBoLee, Obj(NoFields)}

EnvelopeIds == {Undef, Str(<<"P", "1">>), Num(7)}

KeyedBodies ==
    {Obj([x.v EXCEPT !.proposalId = p, !.payload = y]) :
        x \in FewBodies,
        p \in {Undef, Str(<<"P", "1">>)},
        y \in {Undef, Null, Str(Ana), Arr(<<>>)} \cup FewBodies}

SubmitBodies ==
    DirectBodies \cup KeyedBodies
    \cup {Envelope(p, x) : p \in EnvelopeIds, x \in KeyedBodies}

\* The bodies of decide requests: every decision at every stage a proposal
\* can rest in, an unknown decision type and a body without userId
DecisionBodies ==
    {[stage |-> s, decision |-> d, reasons |-> Arr(<<>>), userId |-> Str(<<"u">>)] :
        s \in {"DOC_REVIEW", "RISK_REVIEW", "CHANGES_REQUESTED"}, d \in DecisionType}
    \cup {[stage |-> "DOC_REVIEW", decision |-> "ESCALATE",
           reasons |-> Arr(<<>>), userId |-> Str(<<"u">>)],
          [stage |-> "DOC_REVIEW", decision |-> "APPROVE",
           reasons |-> Arr(<<>>), userId |-> Undef]}

(***************************************************************************)
(* The workflow: submissions and interleaved decide requests               *)
(***************************************************************************)
Init ==
    /\ proposals = <<>>
    /\ decisions = <<>>
    /\ reqs = [r \in 1..MaxRequests |-> IdleReq]
    /\ submitReq = Obj(NoFields)
    /\ submitRes = NoSubmitRes

Next ==
    \/ \E rawBody \in SampleBodies : Submit(rawBody)
    \/ \E r \in 1..MaxRequests, proposalId \in 1..MaxProposals, body \in DecisionBodies :
          Decide(r, proposalId, body)
    \/ \E r \in 1..MaxRequests : DecisionCreated(r)
    \/ \E r \in 1..MaxRequests : StageUpdated(r)
    \/ \E r \in 1..MaxRequests : StorageError(r)

Spec == Init /\ [][Next]_vars

(***************************************************************************)
(* One submission of any body to the empty repository                      *)
(***************************************************************************)
InitSubmit ==
    /\ proposals = <<>>
    /\ decisions = <<>>
    /\ reqs = [r \in 1..MaxRequests |-> IdleReq]
    /\ submitReq \in SubmitBodies
    /\ submitRes = NoSubmitRes

NextSubmit ==
    \/ submitRes = NoSubmitRes /\ Submit(submitReq)
    \/ submitRes = NoSubmitRes /\ SubmitStorageError(submitReq)

SpecSubmit == InitSubmit /\ [][NextSubmit]_vars

(***************************************************************************)
(* Properties                                                              *)
(***************************************************************************)
Terminal == {"APPROVED", "REJECTED"}
NonTerminal == {"DOC_REVIEW", "RISK_REVIEW", "CHANGES_REQUESTED"}

Requests == 1..MaxRequests
Stored == 1..Len(proposals)

DecisionsIn(ds, proposalId) == SelectSeq(ds, LAMBDA d : d.proposalId = proposalId)

\* A well-formed decide body
BodyOf(stage, decision) ==
    [stage |-> stage, decision |-> decision, reasons |-> Arr(<<>>),
     userId |-> Str(<<"u">>)]

\* The transition table of the specification (section 4.4, rules 3-5)
TransitionResult(stage, decision) ==
    CASE decision = "REJECT" -> "REJECTED"
      [] decision = "REQUEST_CHANGES" -> "CHANGES_REQUESTED"
      [] decision = "APPROVE" /\ stage = "DOC_REVIEW" -> "RISK_REVIEW"
      [] decision = "APPROVE" /\ stage = "RISK_REVIEW" -> "APPROVED"
      [] OTHER -> "invalid"

\* Request r starts in this step
Starts(r) == reqs[r].pc = "idle" /\ reqs'[r].pc # "idle"

\* Request r is answered in this step
Answered(r) == reqs[r].pc # "done" /\ reqs'[r].pc = "done"

MismatchError == "Decision stage does not match proposal stage"
CompletedError == "Cannot make decisions on completed proposals"

(* C1: once the stored stage of a proposal is APPROVED or REJECTED, no step
   changes that stage and no step adds a Decision record of that proposal. *)
C1_TerminalStageIsFinal ==
    [][\A p \in Stored :
          proposals[p].stage \in Terminal =>
              /\ proposals'[p].stage = proposals[p].stage
              /\ DecisionsIn(decisions', p) = DecisionsIn(decisions, p)]_vars

(* C2: two decide requests on the same proposal never both succeed against
   the same observed current stage: of two requests answered 201 for one
   proposal, the previous stages they report differ. *)
C2_NoTwoSuccessesOnOneStage ==
    \A r1 \in Requests, r2 \in Requests :
        (/\ r1 # r2
         /\ reqs[r1].res.status = 201
         /\ reqs[r2].res.status = 201
         /\ reqs[r1].proposalId = reqs[r2].proposalId)
        => reqs[r1].res.previousStage # reqs[r2].res.previousStage

(* C3: in every state a reader can observe, the stage of a proposal is the
   transition result of the last Decision of its history (DOC_REVIEW when
   the history is empty): a Decision is never visible without its stage
   update, nor a stage update without its Decision. *)
C3_DecisionAtomicWithStage ==
    \A p \in Stored :
        LET detail == getProposalDetail(p)
            n == Len(detail.decisions)
        IN detail.proposal.stage =
              IF n = 0 THEN "DOC_REVIEW"
              ELSE TransitionResult(detail.decisions[n].stage,
                                    detail.decisions[n].decision)

\* Every body whose claimed stage differs from a non-terminal current stage
\* is rejected by the guards
C4_StaleGuardState ==
    \A p \in Stored, body \in DecisionBodies :
        (proposals[p].stage \in NonTerminal /\ body.stage # proposals[p].stage)
        => DecisionGuards(p, body).status = 400

\* A request that starts on a proposal at a non-terminal stage and is not
\* rejected claims that stage; a rejecting step writes nothing
C4_StaleGuardStep ==
    \A r \in Requests :
        Starts(r) =>
            LET p == reqs'[r].proposalId
            IN /\ (p \in Stored /\ proposals[p].stage \in NonTerminal
                   /\ reqs'[r].pc # "done")
                  => reqs'[r].decisionData.stage = proposals[p].stage
               /\ reqs'[r].pc = "done"
                  => proposals' = proposals /\ decisions' = decisions

(* C4: stale-decision guard.  For every proposal whose current stage S is
   non-terminal and every decide request whose claimed stage differs from
   S, the request is rejected with 400, and the step that rejects it leaves
   the stage S and creates no Decision. *)
C4_StaleDecisionGuard == []C4_StaleGuardState /\ [][C4_StaleGuardStep]_vars

\* A request claiming RISK_REVIEW was rejected as stale on a proposal that
\* is still at DOC_REVIEW without any Decision
C4_Witness ==
    \E r \in Requests :
        /\ reqs[r].res.error = MismatchError
        /\ reqs[r].res.currentStage = "DOC_REVIEW"
        /\ reqs[r].res.decisionStage = "RISK_REVIEW"
        /\ proposals[reqs[r].proposalId].stage = "DOC_REVIEW"
        /\ decisions = <<>>

\* Every APPROVE body is rejected by the guards on a proposal in
\* CHANGES_REQUESTED
C5_ApproveState ==
    \A p \in Stored, body \in DecisionBodies :
        (proposals[p].stage = "CHANGES_REQUESTED" /\ body.decision = "APPROVE")
        => DecisionGuards(p, body).status = 400

\* The stage an answered APPROVE stores; a request starting on a proposal in
\* CHANGES_REQUESTED is rejected in a step that writes no stage
C5_ApproveStep ==
    \A r \in Requests :
        /\ (Answered(r) /\ reqs'[r].res.status = 201
            /\ reqs[r].decisionData.decision = "APPROVE")
           => /\ reqs[r].proposal.stage \in {"DOC_REVIEW", "RISK_REVIEW"}
              /\ reqs[r].decisionData.stage = reqs[r].proposal.stage
              /\ proposals'[reqs[r].proposalId].stage =
                    IF reqs[r].proposal.stage = "DOC_REVIEW"
                    THEN "RISK_REVIEW"
                    ELSE "APPROVED"
        /\ (Starts(r) /\ reqs'[r].proposalId \in Stored
            /\ proposals[reqs'[r].proposalId].stage = "CHANGES_REQUESTED")
           => reqs'[r].res.status = 400 /\ proposals' = proposals

(* C5: a request answered 201 for an APPROVE that passed the guards at
   DOC_REVIEW stores RISK_REVIEW, and one that passed them at RISK_REVIEW
   stores APPROVED; an APPROVE on a proposal in CHANGES_REQUESTED is
   rejected with 400 in a step that changes no stage. *)
C5_ApproveTransitions == []C5_ApproveState /\ [][C5_ApproveStep]_vars

\* An APPROVE moved a proposal from DOC_REVIEW to RISK_REVIEW, and a
\* request on another proposal, in CHANGES_REQUESTED, was rejected
C5_Witness ==
    /\ \E r \in Requests :
          /\ reqs[r].res.status = 201
          /\ reqs[r].res.decision = "APPROVE"
          /\ reqs[r].res.previousStage = "DOC_REVIEW"
          /\ reqs[r].res.newStage = "RISK_REVIEW"
          /\ proposals[reqs[r].proposalId].stage = "RISK_REVIEW"
    /\ \E r \in Requests :
          /\ reqs[r].res.error = MismatchError
          /\ reqs[r].res.currentStage = "CHANGES_REQUESTED"
          /\ proposals[reqs[r].proposalId].stage = "CHANGES_REQUESTED"

(* C6: for every proposal at a non-terminal stage (DOC_REVIEW, RISK_REVIEW
   or CHANGES_REQUESTED), a decide request claiming that stage passes the
   guards with REJECT, giving REJECTED, and with REQUEST_CHANGES, giving
   CHANGES_REQUESTED. *)
C6_RejectFromAnyNonTerminal ==
    \A p \in Stored, decision \in {"REJECT", "REQUEST_CHANGES"} :
        proposals[p].stage \in NonTerminal =>
            /\ DecisionGuards(p, BodyOf(proposals[p].stage, decision)) = NoRes
            /\ NextStage(decision, proposals[p].stage) =
                  TransitionResult(proposals[p].stage, decision)

\* A step that answers 400 is the first step of its request and writes
\* nothing
C7_RejectionStep ==
    \A r \in Requests :
        (Answered(r) /\ reqs'[r].res.status = 400)
        => /\ reqs[r].pc = "idle"
           /\ proposals' = proposals
           /\ decisions' = decisions

(* C7: a decide request answered 400 is rejected in its first step, before
   any storage write, and the step that answers it changes no proposal and
   no Decision: no rejected request leaves a Decision record behind. *)
C7_RejectionLeavesNoTrace == [][C7_RejectionStep]_vars

\* A request was rejected by the terminal-state guard and another one as
\* stale, and the only Decision is the one that completed the proposal
C7_Witness ==
    /\ \E r \in Requests : reqs[r].res.error = CompletedError
    /\ \E r \in Requests : reqs[r].res.error = MismatchError
    /\ Len(decisions) = 1

(* C8: review guarantee.  A proposal whose stage is APPROVED has in its
   history an APPROVE recorded at DOC_REVIEW followed by an APPROVE recorded
   at RISK_REVIEW, and no REJECT or REQUEST_CHANGES Decision. *)
C8_ReviewGuarantee ==
    \A p \in Stored :
        proposals[p].stage = "APPROVED" =>
            LET h == DecisionsOf(p)
            IN /\ \E i \in 1..Len(h), j \in 1..Len(h) :
                     /\ i < j
                     /\ h[i].decision = "APPROVE" /\ h[i].stage = "DOC_REVIEW"
                     /\ h[j].decision = "APPROVE" /\ h[j].stage = "RISK_REVIEW"
               /\ \A k \in 1..Len(h) : h[k].decision = "APPROVE"

\* The violations the claim names, read off the candidate itself: no
\* members, an empty members list, no groupId, a member without a name form
\* or without an amount form
NamedViolation(candidate) ==
    \/ candidate.t # "object"
    \/ candidate.v.groupId.t = "undefined"
    \/ candidate.v.members.t # "array"
    \/ Len(candidate.v.members.v) = 0
    \/ \E i \in 1..Len(candidate.v.members.v) :
          LET m == candidate.v.members.v[i]
          IN \/ m.t # "object"
             \/ ~(\/ (m.v.name.t = "string" /\ m.v.name.v # <<>>)
                  \/ (/\ m.v.firstName.t = "string" /\ m.v.firstName.v # <<>>
                      /\ m.v.lastName.t = "string" /\ m.v.lastName.v # <<>>))
             \/ (m.v.loanAmount.t = "undefined"
                 /\ m.v.requestedAmount.t = "undefined")

\* The candidate of a body: the nested payload when the body carries an
\* object (or array) under the payload key, else the body
CandidateOf(rawBody) ==
    IF rawBody.v.payload.t \in {"object", "array"}
    THEN rawBody.v.payload
    ELSE rawBody

(* C9: validation happens before persistence.  A submit whose candidate
   fails schema validation, or has one of the violations the claim names,
   is answered 400 and creates no proposal; every stored proposal holds the
   normalization of a candidate that passed validation. *)
C9_ValidationBeforePersistence ==
    LET candidate == CandidateOf(submitReq)
        invalid == proposalPayloadSchema(candidate) # {} \/ NamedViolation(candidate)
    IN /\ (submitRes.status # 0 /\ invalid)
          => submitRes.status = 400 /\ proposals = <<>>
       /\ \A p \in Stored :
             /\ ~invalid
             /\ submitRes.status = 201
             /\ proposals[p].payload =
                   Obj(normalizeProposalPayload(ParsedData(candidate)))

\* A payload without members was answered 400 with the violation listed,
\* and nothing is stored
C9_Witness ==
    /\ submitReq.v.groupId.t = "string"
    /\ submitReq.v.members.t = "undefined"
    /\ submitRes.status = 400
    /\ \E e \in submitRes.details : e.key = "members" /\ e.message = "Required"
    /\ proposals = <<>>

\* The outcome of a submission: the validation result and the payload that
\* is persisted
Outcome(rawBody) ==
    LET result == SubmitResult(rawBody)
    IN [success |-> result.success,
        status |-> IF result.success THEN 201 ELSE result.res.status,
        persisted |-> result.normalizedPayload]

\* The body carries an object or an array under its own payload key
CarriesPayload(rawBody) == rawBody.v.payload.t \in {"object", "array"}

\* The outcome of the submission that was handled
HandledOutcome ==
    [success |-> submitRes.status = 201,
     status |-> submitRes.status,
     persisted |-> IF proposals = <<>> THEN Undef ELSE proposals[1].payload]

Handled == submitRes.status \in {201, 400}

(* C10 as claimed: for every body X and every envelope-level proposalId p,
   submitting {proposalId: p, payload: X} has the outcome that submitting X
   had (same status, same persisted payload). *)
C10_EnvelopeEqualsDirect ==
    Handled => \A p \in EnvelopeIds :
                  Outcome(Envelope(p, submitReq)) = HandledOutcome

(* C10 as amended: for every body X that does not itself carry an object or
   array under a payload key, and every envelope-level proposalId p of any
   type, submitting {proposalId: p, payload: X} has the outcome that
   submitting X had (same status, same violations, same persisted payload); a
   submitted body without a nested payload object is validated as the
   candidate itself; and no stored payload has a proposalId or payload key. *)
C10_EnvelopeEqualsDirectAmended ==
    /\ (Handled /\ ~CarriesPayload(submitReq))
       => /\ \A p \in EnvelopeIds :
                /\ Outcome(Envelope(p, submitReq)) = HandledOutcome
                /\ SubmitResult(Envelope(p, submitReq)).res.details
                      = submitRes.details
          /\ (submitRes.status = 201) = (proposalPayloadSchema(submitReq) = {})
    /\ \A i \in Stored :
          /\ proposals[i].payload =
                Obj(normalizeProposalPayload(ParsedData(CandidateOf(submitReq))))
          /\ DOMAIN proposals[i].payload.v =
                {"groupId", "groupName", "leaderName", "leaderPhone",
                 "members", "totalAmount"}

\* An envelope with a proposalId was submitted and the proposal stored is
\* the one a direct submission of its payload gives
C10_Witness ==
    /\ submitReq.v.proposalId.t = "string"
    /\ submitReq.v.payload.t = "object"
    /\ ~CarriesPayload(submitReq.v.payload)
    /\ submitRes.status = 201
    /\ Len(proposals) = 1
    /\ proposals[1].payload = Outcome(submitReq.v.payload).persisted

\* The candidate that was accepted and the payload stored for it
Accepted == submitRes.status = 201 /\ Len(proposals) = 1

Input == CandidateOf(submitReq).v

StoredPayload == proposals[1].payload.v

\* A present, non-empty string
NonEmptyString(x) == x.t = "string" /\ x.v # <<>>

\* The loan amount of an input member: loanAmount if present, else
\* requestedAmount
InputLoanAmount(m) ==
    IF m.v.loanAmount.t # "undefined" THEN m.v.loanAmount ELSE m.v.requestedAmount

\* The sum of the loanAmount values of a member list
RECURSIVE SumOfLoans(_)
SumOfLoans(ms) ==
    IF ms = <<>> THEN 0 ELSE ms[1].v.loanAmount.v + SumOfLoans(Tail(ms))

(* C11: for every accepted payload the stored totalAmount is the explicit
   totalAmount when one is given, an explicit 0 included; otherwise it is
   the sum of the stored members' loanAmount values, each of which is the
   member's loanAmount if present, else its requestedAmount. *)
C11_TotalAmount ==
    Accepted =>
        /\ Input.totalAmount.t = "number"
           => StoredPayload.totalAmount = Input.totalAmount
        /\ Input.totalAmount.t = "undefined"
           => /\ StoredPayload.totalAmount = Num(SumOfLoans(StoredPayload.members.v))
              /\ \A i \in 1..Len(Input.members.v) :
                    StoredPayload.members.v[i].v.loanAmount
                       = InputLoanAmount(Input.members.v[i])

\* Two members, one with loanAmount 100 and one with requestedAmount 50 only,
\* and no explicit total: the stored total is 150
C11_Witness ==
    /\ Accepted
    /\ Input.totalAmount.t = "undefined"
    /\ Len(Input.members.v) = 2
    /\ Input.members.v[1].v.loanAmount = Num(100)
    /\ Input.members.v[2].v.loanAmount.t = "undefined"
    /\ Input.members.v[2].v.requestedAmount = Num(50)
    /\ StoredPayload.totalAmount = Num(150)

\* The name of an input member: the single name if present and non-empty,
\* else first and last name joined by one space and trimmed
InputName(m) ==
    IF NonEmptyString(m.v.name) THEN m.v.name.v
    ELSE Trim((IF m.v.firstName.t = "string" THEN m.v.firstName.v ELSE <<>>)
              \o <<" ">>
              \o (IF m.v.lastName.t = "string" THEN m.v.lastName.v ELSE <<>>))

Unknown == <<"U", "n", "k", "n", "o", "w", "n">>

\* The leader name by the precedence of the claim
ExpectedLeaderName(x) ==
    LET flagged == {i \in 1..Len(x.members.v) :
                       x.members.v[i].v.isLeader = Bool(TRUE)}
    IN IF NonEmptyString(x.leaderName) THEN x.leaderName.v
       ELSE IF flagged # {}
       THEN InputName(x.members.v[CHOOSE i \in flagged : \A j \in flagged : i <= j])
       ELSE InputName(x.members.v[1])

(* C12: for every accepted payload the stored leaderName is the explicit
   leaderName if given; else the name of the first member flagged isLeader;
   else the name of the first member; and it is never the sentinel
   "Unknown", which stands for the absence of all of these. *)
C12_LeaderNamePrecedence ==
    Accepted =>
        /\ StoredPayload.leaderName.v = ExpectedLeaderName(Input)
        /\ StoredPayload.leaderName.v # Unknown

(* C13: normalization is idempotent on the derived fields: normalizing the
   stored (already normalized) payload again gives the same totalAmount,
   leaderName and groupName and, member by member, the same memberId, name
   and loanAmount. *)
C13_NormalizationIdempotent ==
    Accepted =>
        LET once == StoredPayload
            twice == normalizeProposalPayload(once)
        IN /\ once = normalizeProposalPayload(ParsedData(CandidateOf(submitReq)))
           /\ twice.totalAmount = once.totalAmount
           /\ twice.leaderName = once.leaderName
           /\ twice.groupName = once.groupName
           /\ Len(twice.members.v) = Len(once.members.v)
           /\ \A i \in 1..Len(once.members.v) :
                 /\ twice.members.v[i].v.memberId = once.members.v[i].v.memberId
                 /\ twice.members.v[i].v.name = once.members.v[i].v.name
                 /\ twice.members.v[i].v.loanAmount = once.members.v[i].v.loanAmount

\* A payload with every derived field derived was stored: no group name, no
\* leader name, no total, a member without identifier or single name whose
\* amount is its requestedAmount
C13_Witness ==
    /\ Accepted
    /\ Input.groupName.t = "undefined"
    /\ Input.leaderName.t = "undefined"
    /\ Input.totalAmount.t = "undefined"
    /\ Len(Input.members.v) = 1
    /\ Input.members.v[1].v.memberId.t = "undefined"
    /\ Input.members.v[1].v.name.t = "undefined"
    /\ Input.members.v[1].v.loanAmount.t = "undefined"
    /\ StoredPayload.members.v[1].v.memberId = Str(<<"M", "1">>)
    /\ StoredPayload.leaderName = Str(<<"B", "o", " ", "L", "e", "e">>)
    /\ StoredPayload.totalAmount = Num(50)

\* The field rules a member violates, each one evaluated whether or not
\* another one is violated
MemberViolations(m, path) ==
    IF m.t # "object" THEN {Issue(path, "Expected object")}
    ELSE MemberObjectIssues(m, path)
         \cup (IF \/ NonEmptyString(m.v.name)
                  \/ (NonEmptyString(m.v.firstName) /\ NonEmptyString(m.v.lastName))
               THEN {} ELSE {Issue(path, NameMessage)})
         \cup (IF m.v.loanAmount.t = "undefined" /\ m.v.requestedAmount.t = "undefined"
               THEN {Issue(path, AmountMessage)} ELSE {})

\* The field rules a candidate violates
Violations(x) ==
    IF x.t # "object" THEN {Issue(<<>>, "Expected object")}
    ELSE StringIssues(x.v.groupId, <<"groupId">>)
         \cup OptionalStringIssues(x.v.leaderName, <<"leaderName">>)
         \cup OptionalNumberIssues(x.v.totalAmount, <<"totalAmount">>)
         \cup (IF x.v.members.t # "array"
               THEN {Issue(<<"members">>,
                           IF x.v.members.t = "undefined" THEN "Required"
                           ELSE "Expected array")}
               ELSE (IF Len(x.v.members.v) < 1
                     THEN {Issue(<<"members">>, "At least one member is required")}
                     ELSE {})
                    \cup UNION {MemberViolations(x.v.members.v[i], <<"members", i - 1>>) :
                                   i \in 1..Len(x.v.members.v)})

(* C14: the validator never stops at the first error: the 400 response of
   an invalid candidate lists every field rule the candidate violates, each
   under the key of its field with its message. *)
C14_AllViolationsListed ==
    submitRes.status = 400 =>
        \A v \in Violations(CandidateOf(submitReq)) :
            \E e \in submitRes.details :
                /\ e.key = (IF v.path = <<>> THEN "" ELSE v.path[1])
                /\ e.message = v.message

(* C15: every member of every stored proposal has a non-empty name: the
   single-name field when that is present and non-empty, otherwise firstName
   and lastName joined by one space and trimmed, and never the empty
   string. *)
C15_MemberNamePopulated ==
    Accepted =>
        \A i \in 1..Len(Input.members.v) :
            /\ StoredPayload.members.v[i].v.name.v = InputName(Input.members.v[i])
            /\ StoredPayload.members.v[i].v.name.v # <<>>

(* C16: the zero fallback is unreachable after validation: every member of
   every stored proposal had loanAmount or requestedAmount in the input, and
   its stored loanAmount is the input loanAmount when that was present (an
   explicit 0 included), otherwise the input requestedAmount. *)
C16_ZeroFallbackUnreachable ==
    Accepted =>
        \A i \in 1..Len(Input.members.v) :
            LET m == Input.members.v[i].v
                stored == StoredPayload.members.v[i].v.loanAmount
            IN /\ m.loanAmount.t = "number" \/ m.requestedAmount.t = "number"
               /\ m.loanAmount.t = "number" => stored = m.loanAmount
               /\ m.loanAmount.t # "number" => stored = m.requestedAmount

\* A member with an explicit loanAmount of 0 and a requestedAmount of 50 was
\* stored with loanAmount 0
C16_Witness ==
    /\ Accepted
    /\ Len(Input.members.v) = 1
    /\ Input.members.v[1].v.loanAmount = Num(0)
    /\ Input.members.v[1].v.requestedAmount = Num(50)
    /\ StoredPayload.members.v[1].v.loanAmount = Num(0)

(* C17: every Decision stores the stage in effect at its creation: in every
   step, each Decision record the step adds carries the stage its proposal
   has in storage when the step is taken. *)
C17_DecisionStoresCurrentStage ==
    [][\A k \in (Len(decisions) + 1)..Len(decisions') :
          decisions'[k].stage = proposals[decisions'[k].proposalId].stage]_vars

(* C18: the stored stage changes only by engine transitions: every change
   of a stored stage from S to S' has S non-terminal and S' the transition
   result of S for some decision type. *)
C18_StageChangesByEngineOnly ==
    [][\A p \in Stored :
          proposals'[p].stage # proposals[p].stage =>
              /\ proposals[p].stage \in NonTerminal
              /\ \E d \in DecisionType :
                    proposals'[p].stage = TransitionResult(proposals[p].stage, d)]_vars

\* The first step of a request as its body and the record of the proposal
\* it names determine it: answered by a guard, or on its way to
\* storage.createDecision
OwnStart(proposalId, body, proposal) ==
    IF ~insertDecisionSchema(body)
    THEN [pc |-> "done", error |-> "Invalid decision payload", stage |-> ""]
    ELSE IF proposal.stage \in Terminal
    THEN [pc |-> "done", error |-> CompletedError, stage |-> proposal.stage]
    ELSE IF proposal.stage # body.stage
    THEN [pc |-> "done", error |-> MismatchError, stage |-> proposal.stage]
    ELSE [pc |-> "create", error |-> "", stage |-> proposal.stage]

\* A step of request r on proposal P leaves every other proposal and its
\* history as they are; what the first step answers depends on the body and
\* on P alone, and what the last step answers on what the request read of P
C19_IndependentStep ==
    \A r \in Requests :
        reqs'[r] # reqs[r] =>
            LET P == reqs'[r].proposalId
            IN /\ \A q \in Stored :
                     q # P => /\ proposals'[q] = proposals[q]
                              /\ DecisionsIn(decisions', q) = DecisionsIn(decisions, q)
               /\ Len(proposals') = Len(proposals)
               /\ (Starts(r) /\ P \in Stored) =>
                     \E body \in DecisionBodies :
                        LET own == OwnStart(P, body, proposals[P])
                        IN /\ reqs'[r].pc = own.pc
                           /\ reqs'[r].res.error = own.error
                           /\ own.pc = "create" =>
                                 /\ reqs'[r].decisionData = body
                                 /\ reqs'[r].proposal = proposals[P]
                           /\ own.error = CompletedError =>
                                 reqs'[r].res.stage = own.stage
                           /\ own.error = MismatchError =>
                                 /\ reqs'[r].res.currentStage = own.stage
                                 /\ reqs'[r].res.decisionStage = body.stage
               /\ (Answered(r) /\ reqs'[r].res.status = 201) =>
                     /\ reqs'[r].res.previousStage = reqs[r].proposal.stage
                     /\ reqs'[r].res.newStage =
                           TransitionResult(reqs[r].proposal.stage,
                                            reqs[r].decisionData.decision)
                     /\ proposals'[P].stage = reqs'[r].res.newStage

(* C19: decisions on different proposals are independent: a step of a decide
   request on proposal P changes neither the stage, the payload nor the
   history of any other proposal, and its outcome is determined by the
   request and by P's own record. *)
C19_ProposalsIndependent == [][C19_IndependentStep]_vars

\* Two proposals: the first was decided (201) and has left DOC_REVIEW, the
\* second was the target of a rejected request and is still at DOC_REVIEW
\* with an empty history
C19_Witness ==
    /\ Len(proposals) = 2
    /\ \E r \in Requests : reqs[r].proposalId = 1 /\ reqs[r].res.status = 201
    /\ \E r \in Requests :
          /\ reqs[r].proposalId = 2
          /\ reqs[r].res.error = MismatchError
          /\ reqs[r].res.currentStage = "DOC_REVIEW"
    /\ proposals[1].stage # "DOC_REVIEW"
    /\ proposals[2].stage = "DOC_REVIEW"
    /\ DecisionsOf(1) # <<>>
    /\ DecisionsOf(2) = <<>>

(* C20: a proposal never has two Decision records recorded at the same
   stage: the Decisions of one proposal carry pairwise distinct stages. *)
C20_OneDecisionPerStage ==
    \A p \in Stored :
        LET h == DecisionsOf(p)
        IN \A i \in 1..Len(h), j \in 1..Len(h) :
              i # j => h[i].stage # h[j].stage

\* No decide request on proposal p is between its guards and its response
Quiet(rs, p) ==
    \A r \in Requests : rs[r].proposalId = p => rs[r].pc \notin {"create", "update"}

\* On a proposal in CHANGES_REQUESTED every body is rejected by the guards,
\* a body that passes the schema claiming DOC_REVIEW or RISK_REVIEW
C21_DeadEndState ==
    \A p \in Stored, body \in DecisionBodies :
        /\ insertDecisionSchema(body) => body.stage \in {"DOC_REVIEW", "RISK_REVIEW"}
        /\ proposals[p].stage = "CHANGES_REQUESTED"
           => DecisionGuards(p, body).status = 400

\* From a proposal in CHANGES_REQUESTED with no request on it in flight,
\* a step keeps the stage and the history and leaves no request in flight;
\* a request that starts on it is answered 400 in that step
C21_DeadEndStep ==
    \A p \in Stored :
        (proposals[p].stage = "CHANGES_REQUESTED" /\ Quiet(reqs, p))
        => /\ proposals'[p].stage = "CHANGES_REQUESTED"
           /\ DecisionsIn(decisions', p) = DecisionsIn(decisions, p)
           /\ Quiet(reqs', p)
           /\ \A r \in Requests :
                 (Starts(r) /\ reqs'[r].proposalId = p)
                 => /\ reqs'[r].pc = "done"
                    /\ reqs'[r].res.status = 400
                    /\ reqs'[r].res.error \in {"Invalid decision payload", MismatchError}

(* C21: CHANGES_REQUESTED is a dead end for decisions.  A claimed stage
   that passes the schema is DOC_REVIEW or RISK_REVIEW, so every decide
   request that starts on a proposal in CHANGES_REQUESTED with no other
   decide request on it in flight is rejected with 400; the proposal stays
   in CHANGES_REQUESTED and gains no Decision. *)
C21_ChangesRequestedDeadEnd == []C21_DeadEndState /\ [][C21_DeadEndStep]_vars

\* A proposal was moved to CHANGES_REQUESTED by its only Decision, no
\* request on it is in flight, and two later requests on it were rejected:
\* one as stale and one by the schema
C21_Witness ==
    \E p \in Stored :
        /\ proposals[p].stage = "CHANGES_REQUESTED"
        /\ Quiet(reqs, p)
        /\ Len(DecisionsOf(p)) = 1
        /\ DecisionsOf(p)[1].decision = "REQUEST_CHANGES"
        /\ \E r \in Requests :
              /\ reqs[r].proposalId = p
              /\ reqs[r].res.error = MismatchError
              /\ reqs[r].res.currentStage = "CHANGES_REQUESTED"
        /\ \E r \in Requests :
              /\ reqs[r].proposalId = p
              /\ reqs[r].res.error = "Invalid decision payload"

====
